---- MODULE Spec2Model ----
(***************************************************************************)
(* Model of the filemanager package: extract_file_components and           *)
(* search_files.  Python strings are sequences of one-character strings,   *)
(* so that prefix, suffix and substring tests are computed, not assumed.   *)
(***************************************************************************)
EXTENDS Integers, Sequences, FiniteSets, TLC

VARIABLES
    cwd,            \* the process's current working directory (os.getcwd())
    args,           \* the caller's argument objects, reused from call to call
    args0,          \* the caller's original values of the argument objects
    given,          \* contents of the argument objects when the running call began
    cwd0,           \* working directory when the running call began
    pc,             \* position inside search_files ("idle" between calls)
    loc,            \* the locals of search_files after Parameter Conversion
    k,              \* index of the directory the current loop is at
    w,              \* index of the os.walk entry being visited
    f,              \* index of the file being visited in that entry
    list_filepaths, \* the accumulated result
    origin,         \* for each element of list_filepaths, its root's index and its directory
    log,            \* filesystem accesses and custom-predicate invocations, in order
    outcome,        \* how the last call ended
    efc             \* last call of extract_file_components: argument and result

vars == <<cwd, args, args0, given, cwd0, pc, loc, k, w, f, list_filepaths,
          origin, log, outcome, efc>>

search_vars == <<cwd, args, args0, given, cwd0, pc, loc, k, w, f,
                 list_filepaths, origin, log, outcome>>

-----------------------------------------------------------------------------
(* Bounds *)

MaxLen == 4
MaxRoots == 2
MaxDeclared == 2
MaxIllTyped == 1

-----------------------------------------------------------------------------
(* Python str operations on sequences of characters *)

Sep == "/"
Dot == "."

startswith(s, prefix) ==
    /\ Len(prefix) <= Len(s)
    /\ SubSeq(s, 1, Len(prefix)) = prefix

endswith(s, suffix) ==
    /\ Len(suffix) <= Len(s)
    /\ SubSeq(s, Len(s) - Len(suffix) + 1, Len(s)) = suffix

\* Python's  sub in s
contains(s, sub) ==
    \E i \in 0..(Len(s) - Len(sub)) : SubSeq(s, i + 1, i + Len(sub)) = sub

\* s.rfind(c) + 1 : the 1-based index of the last c in s, 0 when there is none
rfind(s, c) ==
    LET hits == {i \in 1..Len(s) : s[i] = c}
    IN  IF hits = {} THEN 0 ELSE CHOOSE i \in hits : \A j \in hits : j <= i

\* head.rstrip(sep)
RECURSIVE rstrip(_, _)
rstrip(s, c) ==
    IF Len(s) > 0 /\ s[Len(s)] = c THEN rstrip(SubSeq(s, 1, Len(s) - 1), c) ELSE s

-----------------------------------------------------------------------------
(* The path-splitting primitives used by extract_file_components *)

\* os.path.split : everything before the last separator, and the last segment
os_path_split(p) ==
    LET i    == rfind(p, Sep)
        head == SubSeq(p, 1, i)
        tail == SubSeq(p, i + 1, Len(p))
    IN  IF head # <<>> /\ (\E j \in 1..Len(head) : head[j] # Sep)
        THEN <<rstrip(head, Sep), tail>>
        ELSE <<head, tail>>

\* A variant that cuts at the last dot whatever precedes it
splitext_cut_at_any_dot(p) ==
    LET dotIndex == rfind(p, Dot)
    IN  IF dotIndex > rfind(p, Sep)
        THEN <<SubSeq(p, 1, dotIndex - 1), SubSeq(p, dotIndex, Len(p))>>
        ELSE <<p, <<>> >>

\* os.path.splitext : the extension starts at the last dot of the last segment,
\* unless only dots precede it in that segment
os_path_splitext(p) ==
    LET sepIndex == rfind(p, Sep)
        dotIndex == rfind(p, Dot)
    IN  IF /\ dotIndex > sepIndex
           /\ \E j \in (sepIndex + 1)..(dotIndex - 1) : p[j] # Dot
        THEN <<SubSeq(p, 1, dotIndex - 1), SubSeq(p, dotIndex, Len(p))>>
        ELSE <<p, <<>> >>

\* extract_file_components on a str: (path, filename, extension)
extract_file_components(filepath) ==
    LET sp == os_path_split(filepath)
        se == os_path_splitext(sp[2])
    IN  <<sp[1], se[1], se[2]>>

\* os.path.join(a, b)
os_path_join(a, b) ==
    IF startswith(b, <<Sep>>) THEN b
    ELSE IF a = <<>> \/ a[Len(a)] = Sep THEN a \o b
    ELSE a \o <<Sep>> \o b

\* os.path.isabs
os_path_isabs(p) == startswith(p, <<Sep>>)

\* The non-empty segments of a path
RECURSIVE Segments(_)
Segments(p) ==
    IF p = <<>> THEN <<>>
    ELSE LET i == rfind(p, Sep)
             last == SubSeq(p, i + 1, Len(p))
             rest == Segments(SubSeq(p, 1, i - 1))
         IN  IF last = <<>> THEN rest ELSE Append(rest, last)

\* Two spellings name the same path on the host: same anchoring, same segments
Equivalent(p, q) ==
    /\ os_path_isabs(p) = os_path_isabs(q)
    /\ Segments(p) = Segments(q)

-----------------------------------------------------------------------------
(* The directory tree that the search reads; it is not modified *)

Str(x) == [t |-> "str", v |-> x]
Int5 == [t |-> "int", v |-> <<>>]

nW   == <<"w">>
nV   == <<"v">>
nS   == <<"s">>
nSX  == <<"s", "x">>
nD   == <<"d">>
fAP  == <<"a", ".", "p">>
fSBT == <<"s", "b", ".", "t">>
fCP  == <<"c", ".", "p">>
fEP  == <<"e", ".", "p">>
fH   == <<".", "h">>

pW   == <<"/", "w">>
pV   == <<"/", "v">>
pWS  == <<"/", "w", "/", "s">>
pS   == <<"s">>
pN   == <<"/", "n">>
pWAP == <<"/", "w", "/", "a", ".", "p">>

\*  /w        a.p  sb.t
\*  /w/s      c.p
\*  /w/s/d    e.p
\*  /w/sx     .h
\*  /v        a.p
Tree ==
    [ root  |-> [dirs |-> << <<nW, "w">>, <<nV, "v">> >>, files |-> <<>>],
      w     |-> [dirs |-> << <<nS, "w_s">>, <<nSX, "w_sx">> >>, files |-> <<fAP, fSBT>>],
      w_s   |-> [dirs |-> << <<nD, "w_s_d">> >>, files |-> <<fCP>>],
      w_s_d |-> [dirs |-> <<>>, files |-> <<fEP>>],
      w_sx  |-> [dirs |-> <<>>, files |-> <<fH>>],
      v     |-> [dirs |-> <<>>, files |-> <<fAP>>] ]

CwdChoices == {pW, pV}

\* The entry called seg in directory node: a directory node, "FILE" or "NONE"
lookup(node, seg) ==
    LET d == Tree[node]
    IN  IF \E i \in 1..Len(d.dirs) : d.dirs[i][1] = seg
        THEN d.dirs[CHOOSE i \in 1..Len(d.dirs) : d.dirs[i][1] = seg][2]
        ELSE IF \E i \in 1..Len(d.files) : d.files[i] = seg THEN "FILE"
        ELSE "NONE"

RECURSIVE ResolveFrom(_, _)
ResolveFrom(node, segs) ==
    IF segs = <<>> THEN node
    ELSE IF node \in {"FILE", "NONE"} THEN "NONE"
    ELSE ResolveFrom(lookup(node, Head(segs)), Tail(segs))

\* What the path names for a process whose working directory is wd
stat(path, wd) ==
    IF path = <<>> THEN "NONE"
    ELSE IF os_path_isabs(path) THEN ResolveFrom("root", Segments(path))
    ELSE ResolveFrom(ResolveFrom("root", Segments(wd)), Segments(path))

\* A variant that accepts anything that exists
path_exists(path, wd) == stat(path, wd) # "NONE"

\* os.path.isdir(directory)
os_path_isdir(path, wd) == stat(path, wd) \notin {"FILE", "NONE"}

\* os.walk(top), top-down: one entry (root, files) per directory under top,
\* root being top joined with the names walked through; nothing when top
\* cannot be listed
RECURSIVE WalkFrom(_, _), WalkDirs(_, _, _)
WalkFrom(node, path) ==
    <<[root |-> path, files |-> Tree[node].files]>> \o WalkDirs(node, path, 1)
WalkDirs(node, path, i) ==
    IF i > Len(Tree[node].dirs) THEN <<>>
    ELSE WalkFrom(Tree[node].dirs[i][2], os_path_join(path, Tree[node].dirs[i][1]))
         \o WalkDirs(node, path, i + 1)

os_walk(top, wd) ==
    IF stat(top, wd) \in {"FILE", "NONE"} THEN <<>> ELSE WalkFrom(stat(top, wd), top)

-----------------------------------------------------------------------------
(* Argument values.  kind: "none" (None), "str", "list", "tuple", or        *)
(* "other" (an object that is neither a str nor a Sequence); items: the     *)
(* elements, each a str or an int.                                          *)

None == [kind |-> "none", items |-> <<>>]
AStr(x) == [kind |-> "str", items |-> <<Str(x)>>]
AList(xs) == [kind |-> "list", items |-> [i \in 1..Len(xs) |-> Str(xs[i])]]
ATuple(xs) == [kind |-> "tuple", items |-> [i \in 1..Len(xs) |-> Str(xs[i])]]
Other == [kind |-> "other", items |-> <<>>]

StrParams ==
    {"include_directory", "include_pattern", "include_start", "include_content",
     "include_end", "include_extension", "exclude_subdirectory", "exclude_pattern",
     "exclude_start", "exclude_content", "exclude_end", "exclude_extension"}

Criteria == StrParams \ {"include_directory"}

\* A variant that accepts every Sequence without looking at its elements
check_type_union_shallow(obj) ==
    obj.kind \in {"none", "str", "list", "tuple"}

\* check_type_union: None, a str, or a Sequence of str
check_type_union(obj) ==
    IF obj.kind = "none" THEN TRUE
    ELSE IF obj.kind = "str" THEN TRUE
    ELSE IF obj.kind \in {"list", "tuple"}
         THEN \A i \in 1..Len(obj.items) : obj.items[i].t = "str"
    ELSE FALSE

\* data_to_list: a new list for None and for a str, the object itself otherwise
\* (alias: the local names the caller's object)
data_to_list(obj) ==
    IF obj.kind = "none" THEN [kind |-> "list", items |-> <<>>, alias |-> FALSE]
    ELSE IF obj.kind = "str" THEN [kind |-> "list", items |-> obj.items, alias |-> FALSE]
    ELSE [kind |-> obj.kind, items |-> obj.items, alias |-> TRUE]

\* The strings of a converted parameter
Strs(l) == [i \in 1..Len(l.items) |-> l.items[i].v]

-----------------------------------------------------------------------------
(* Custom predicates.  kind "none": absent; "int": an object that is not     *)
(* callable; "fn": a function that answers yes on paths containing the       *)
(* character ch and no on the others, each answer "True", "False" or "raise" *)

NoFilter == [kind |-> "none", ch |-> "", yes |-> "", no |-> ""]
NotCallable == [kind |-> "int", ch |-> "", yes |-> "", no |-> ""]
Fn(c, y, n) == [kind |-> "fn", ch |-> c, yes |-> y, no |-> n]

\* filter(filepath): "True", "False", "raise" (the predicate raised) or
\* "TypeError" (the object is not callable)
CallFilter(flt, filepath) ==
    IF flt.kind = "int" THEN "TypeError"
    ELSE IF contains(filepath, <<flt.ch>>) THEN flt.yes ELSE flt.no

\* re.match(p, s) for patterns made of literal characters, "." (any
\* character), an optional leading "^" and an optional trailing "$": the
\* pattern matches from position zero and need not consume s unless it ends
\* with "$"
re_match(p, s) ==
    LET q      == IF startswith(p, <<"^">>) THEN Tail(p) ELSE p
        dollar == endswith(q, <<"$">>)
        body   == IF dollar THEN SubSeq(q, 1, Len(q) - 1) ELSE q
    IN  /\ Len(body) <= Len(s)
        /\ \A i \in 1..Len(body) : body[i] = Dot \/ body[i] = s[i]
        /\ dollar => Len(body) = Len(s)

\* The five string groups of matches_criteria
include_strings(filepath, patterns, starts, contains_, ends, exts) ==
    LET c         == extract_file_components(filepath)
        filename  == c[2]
        extension == c[3]
    IN  /\ (starts = <<>> \/ \E i \in 1..Len(starts) : startswith(filename, starts[i]))
        /\ (contains_ = <<>> \/ \E i \in 1..Len(contains_) : contains(filename, contains_[i]))
        /\ (ends = <<>> \/ \E i \in 1..Len(ends) : endswith(filename, ends[i]))
        /\ (exts = <<>> \/ \E i \in 1..Len(exts) : extension = exts[i])
        /\ (patterns = <<>> \/ \E i \in 1..Len(patterns) : re_match(patterns[i], filename))

\* A variant that wants every declared group to match, as the inclusion does
exclude_strings_all(filepath, patterns, starts, contains_, ends, exts) ==
    /\ include_strings(filepath, patterns, starts, contains_, ends, exts)
    /\ <<patterns, starts, contains_, ends, exts>> # <<<<>>, <<>>, <<>>, <<>>, <<>>>>

\* The five string groups of matches_exclusion_criteria
exclude_strings(filepath, patterns, starts, contains_, ends, exts) ==
    LET c         == extract_file_components(filepath)
        filename  == c[2]
        extension == c[3]
    IN  \/ (starts # <<>> /\ \E i \in 1..Len(starts) : startswith(filename, starts[i]))
        \/ (contains_ # <<>> /\ \E i \in 1..Len(contains_) : contains(filename, contains_[i]))
        \/ (ends # <<>> /\ \E i \in 1..Len(ends) : endswith(filename, ends[i]))
        \/ (exts # <<>> /\ \E i \in 1..Len(exts) : extension = exts[i])
        \/ (patterns # <<>> /\ \E i \in 1..Len(patterns) : re_match(patterns[i], filename))

\* A variant that calls the custom predicate before looking at the strings
matches_criteria_filter_first(filepath, patterns, starts, contains_, ends, exts, filter) ==
    IF filter.kind = "none"
    THEN [val |-> IF include_strings(filepath, patterns, starts, contains_, ends, exts)
                  THEN "True" ELSE "False", inv |-> FALSE]
    ELSE LET r == CallFilter(filter, filepath)
         IN  [val |-> IF r = "True"
                         /\ ~include_strings(filepath, patterns, starts, contains_, ends, exts)
                      THEN "False" ELSE r,
              inv |-> TRUE]

\* matches_criteria: val is the value of the conjunction ("True", "False") or
\* the error of the custom predicate; inv tells whether the predicate was
\* called, which the short-circuit "and" does only when the strings passed
matches_criteria(filepath, patterns, starts, contains_, ends, exts, filter) ==
    IF ~include_strings(filepath, patterns, starts, contains_, ends, exts)
    THEN [val |-> "False", inv |-> FALSE]
    ELSE IF filter.kind = "none" THEN [val |-> "True", inv |-> FALSE]
    ELSE [val |-> CallFilter(filter, filepath), inv |-> TRUE]

\* matches_exclusion_criteria: the short-circuit "or" calls the predicate
\* only when no string matched
matches_exclusion_criteria(filepath, patterns, starts, contains_, ends, exts, filter) ==
    IF exclude_strings(filepath, patterns, starts, contains_, ends, exts)
    THEN [val |-> "True", inv |-> FALSE]
    ELSE IF filter.kind = "none" THEN [val |-> "False", inv |-> FALSE]
    ELSE [val |-> CallFilter(filter, filepath), inv |-> TRUE]

\* A variant that prunes only a directory whose name is one of the fragments
excluded_by_name(root, exclude_subdirectory) ==
    \E i \in 1..Len(exclude_subdirectory) :
        \E j \in 1..Len(Segments(root)) : Segments(root)[j] = exclude_subdirectory[i]

\* Line 232: some fragment is a substring of the directory's traversed path
excluded_root(root, exclude_subdirectory) ==
    /\ exclude_subdirectory # <<>>
    /\ \E i \in 1..Len(exclude_subdirectory) : contains(root, exclude_subdirectory[i])

-----------------------------------------------------------------------------
(* search_files as a state machine *)

AllParams == StrParams \cup {"include_filter", "exclude_filter"}

NotStarted == [st |-> "none", exc |-> "", at |-> "", dir |-> <<>>]
Running == [st |-> "running", exc |-> "", at |-> "", dir |-> <<>>]
Returned == [st |-> "returned", exc |-> "", at |-> "", dir |-> <<>>]
Raised(e, where, d) == [st |-> "raised", exc |-> e, at |-> where, dir |-> d]

NoLocals == [p \in StrParams |-> [kind |-> "list", items |-> <<>>, alias |-> FALSE]]

Event(o, p, r, i, v) == [op |-> o, path |-> p, root |-> r, k |-> i, val |-> v]

\* The roots the call searches, once converted
Roots == Strs(loc["include_directory"])

\* A variant that keeps a path once only
append_unless_present(list, filepath) ==
    IF \E j \in 1..Len(list) : list[j] = filepath THEN list ELSE Append(list, filepath)

\* list_filepaths.append(filepath)
append_filepath(list, filepath) == Append(list, filepath)

\* The caller starts a call with its argument objects as they are now
Call ==
    /\ pc = "idle"
    /\ pc' = "ParameterCheck"
    /\ given' = args
    /\ cwd0' = cwd
    /\ loc' = NoLocals
    /\ k' = 0 /\ w' = 0 /\ f' = 0
    /\ list_filepaths' = <<>>
    /\ origin' = <<>>
    /\ log' = <<>>
    /\ outcome' = Running
    /\ UNCHANGED <<cwd, args, args0, efc>>

\* Lines 199-202: Parameter Check
ParameterCheck ==
    /\ pc = "ParameterCheck"
    /\ IF \E p \in StrParams : ~check_type_union(args[p])
       THEN /\ outcome' = Raised("TypeError", "ParameterCheck", <<>>)
            /\ pc' = "idle"
       ELSE /\ pc' = "ParameterConversion"
            /\ UNCHANGED outcome
    /\ UNCHANGED <<cwd, args, args0, given, cwd0, loc, k, w, f, list_filepaths,
                   origin, log, efc>>

\* Lines 205-216: Parameter Conversion
ParameterConversion ==
    /\ pc = "ParameterConversion"
    /\ loc' = [p \in StrParams |-> data_to_list(args[p])]
    /\ pc' = "DefaultDirectory"
    /\ UNCHANGED <<cwd, args, args0, given, cwd0, k, w, f, list_filepaths,
                   origin, log, outcome, efc>>

\* Lines 219-220: include_directory.append(os.getcwd()) when it is empty.  The
\* attribute append is looked up before os.getcwd() is called; a tuple has none.
\* When the local names the caller's list, the caller's list grows too.
DefaultDirectory ==
    /\ pc = "DefaultDirectory"
    /\ LET d == loc["include_directory"]
       IN  IF Len(d.items) # 0
           THEN /\ pc' = "CheckDirectories"
                /\ k' = 1
                /\ UNCHANGED <<loc, args, log, outcome>>
           ELSE IF d.kind # "list"
           THEN /\ outcome' = Raised("AttributeError", "DefaultDirectory", <<>>)
                /\ pc' = "idle"
                /\ UNCHANGED <<loc, args, log, k>>
           ELSE /\ loc' = [loc EXCEPT !["include_directory"].items = Append(@, Str(cwd))]
                /\ args' = IF d.alias
                           THEN [args EXCEPT !["include_directory"].items = Append(@, Str(cwd))]
                           ELSE args
                /\ log' = Append(log, Event("getcwd", cwd, <<>>, 0, ""))
                /\ pc' = "CheckDirectories"
                /\ k' = 1
                /\ UNCHANGED outcome
    /\ UNCHANGED <<cwd, args0, given, cwd0, w, f, list_filepaths, origin, efc>>

\* Lines 223-225: Checking the directories, one per step
CheckDirectories ==
    /\ pc = "CheckDirectories"
    /\ IF k > Len(Roots)
       THEN /\ pc' = "Walk"
            /\ k' = 1
            /\ w' = 1
            /\ UNCHANGED <<log, outcome>>
       ELSE /\ log' = Append(log, Event("isdir", Roots[k], <<>>, k, ""))
            /\ IF os_path_isdir(Roots[k], cwd)
               THEN /\ k' = k + 1
                    /\ UNCHANGED <<pc, outcome>>
               ELSE /\ outcome' = Raised("FileNotFoundError", "CheckDirectories", Roots[k])
                    /\ pc' = "idle"
                    /\ UNCHANGED k
            /\ UNCHANGED w
    /\ UNCHANGED <<cwd, args, args0, given, cwd0, loc, f, list_filepaths, origin, efc>>

\* Lines 229-233: the next (root, dirs, files) of os.walk(directory), skipped
\* when its root is excluded
Walk ==
    /\ pc = "Walk"
    /\ IF k > Len(Roots)
       THEN /\ pc' = "Return"
            /\ UNCHANGED <<k, w, f, log>>
       ELSE LET entries == os_walk(Roots[k], cwd)
            IN  IF w > Len(entries)
                THEN /\ k' = k + 1
                     /\ w' = 1
                     /\ UNCHANGED <<pc, f, log>>
                ELSE /\ log' = Append(log, Event("walk", Roots[k], entries[w].root, k, ""))
                     /\ IF excluded_root(entries[w].root, Strs(loc["exclude_subdirectory"]))
                        THEN /\ w' = w + 1
                             /\ UNCHANGED <<pc, f>>
                        ELSE /\ pc' = "Files"
                             /\ f' = 1
                             /\ UNCHANGED w
                     /\ UNCHANGED k
    /\ UNCHANGED <<cwd, args, args0, given, cwd0, loc, list_filepaths, origin,
                   outcome, efc>>

\* Lines 234-238: one file of the entry
VisitFile ==
    /\ pc = "Files"
    /\ LET entry == os_walk(Roots[k], cwd)[w]
       IN  IF f > Len(entry.files)
           THEN /\ pc' = "Walk"
                /\ w' = w + 1
                /\ UNCHANGED <<f, list_filepaths, origin, log, outcome>>
           ELSE LET filepath == os_path_join(entry.root, entry.files[f])
                    inc == matches_criteria(filepath,
                               Strs(loc["include_pattern"]), Strs(loc["include_start"]),
                               Strs(loc["include_content"]), Strs(loc["include_end"]),
                               Strs(loc["include_extension"]), args["include_filter"])
                    exc == matches_exclusion_criteria(filepath,
                               Strs(loc["exclude_pattern"]), Strs(loc["exclude_start"]),
                               Strs(loc["exclude_content"]), Strs(loc["exclude_end"]),
                               Strs(loc["exclude_extension"]), args["exclude_filter"])
                    log1 == IF inc.inv
                            THEN Append(log, Event("include_filter", filepath, entry.root, k, inc.val))
                            ELSE log
                    log2 == IF exc.inv
                            THEN Append(log1, Event("exclude_filter", filepath, entry.root, k, exc.val))
                            ELSE log1
                IN  IF inc.val \notin {"True", "False"}
                    THEN /\ log' = log1
                         /\ outcome' = Raised(IF inc.val = "raise" THEN "PredicateError" ELSE "TypeError",
                                              "include_filter", <<>>)
                         /\ pc' = "idle"
                         /\ UNCHANGED <<w, f, list_filepaths, origin>>
                    ELSE IF inc.val = "False"
                    THEN /\ log' = log1
                         /\ f' = f + 1
                         /\ UNCHANGED <<pc, w, list_filepaths, origin, outcome>>
                    ELSE IF exc.val \notin {"True", "False"}
                    THEN /\ log' = log2
                         /\ outcome' = Raised(IF exc.val = "raise" THEN "PredicateError" ELSE "TypeError",
                                              "exclude_filter", <<>>)
                         /\ pc' = "idle"
                         /\ UNCHANGED <<w, f, list_filepaths, origin>>
                    ELSE /\ log' = log2
                         /\ f' = f + 1
                         /\ IF exc.val = "False"
                            THEN /\ list_filepaths' = append_filepath(list_filepaths, filepath)
                                 /\ origin' = Append(origin, [k |-> k, root |-> entry.root])
                            ELSE UNCHANGED <<list_filepaths, origin>>
                         /\ UNCHANGED <<pc, w, outcome>>
    /\ UNCHANGED <<cwd, args, args0, given, cwd0, loc, k, efc>>

\* Line 239: return list_filepaths
Return ==
    /\ pc = "Return"
    /\ outcome' = Returned
    /\ pc' = "idle"
    /\ UNCHANGED <<cwd, args, args0, given, cwd0, loc, k, w, f, list_filepaths,
                   origin, log, efc>>

\* Between calls the caller may change the working directory
Chdir ==
    /\ pc = "idle"
    /\ \E d \in CwdChoices \ {cwd} : cwd' = d
    /\ UNCHANGED <<args, args0, given, cwd0, pc, loc, k, w, f, list_filepaths,
                   origin, log, outcome, efc>>

Next ==
    \/ Call
    \/ ParameterCheck
    \/ ParameterConversion
    \/ DefaultDirectory
    \/ CheckDirectories
    \/ Walk
    \/ VisitFile
    \/ Return
    \/ Chdir

-----------------------------------------------------------------------------
(* Initial states *)

NoEfc == [called |-> FALSE, isstr |-> TRUE, arg |-> <<>>, exc |-> "", out |-> <<>>]

\* Sequences over S of length at most n
RECURSIVE SeqsUpTo(_, _)
SeqsUpTo(S, n) ==
    IF n = 0 THEN {<<>>}
    ELSE LET shorter == SeqsUpTo(S, n - 1)
         IN  shorter \cup {Append(s, x) : s \in shorter, x \in S}

MkArgs(dirs, crit, inf, exf) ==
    [p \in AllParams |->
        IF p = "include_directory" THEN dirs
        ELSE IF p = "include_filter" THEN inf
        ELSE IF p = "exclude_filter" THEN exf
        ELSE IF p \in DOMAIN crit THEN crit[p]
        ELSE None]

Idle(a, d) ==
    /\ cwd = d
    /\ args = a
    /\ args0 = a
    /\ given = a
    /\ cwd0 = d
    /\ pc = "idle"
    /\ loc = NoLocals
    /\ k = 0 /\ w = 0 /\ f = 0
    /\ list_filepaths = <<>>
    /\ origin = <<>>
    /\ log = <<>>
    /\ outcome = NotStarted
    /\ efc = NoEfc

\* Well-typed values of each criterion
GoodValues(p) ==
    IF p \in {"include_pattern", "exclude_pattern"}
        THEN {AStr(<<"s">>), AList(<< <<"^", ".", "$">>, <<"c">> >>)}
    ELSE IF p \in {"include_start", "exclude_start"}
        THEN {AStr(<<"s">>), AList(<< <<"a">>, <<"c">> >>)}
    ELSE IF p \in {"include_content", "exclude_content"}
        THEN {AStr(<<"b">>), ATuple(<< <<"e">>, <<"h">> >>)}
    ELSE IF p \in {"include_end", "exclude_end"}
        THEN {AStr(<<"b">>), AList(<< <<"a">>, <<"h">> >>)}
    ELSE IF p \in {"include_extension", "exclude_extension"}
        THEN {AStr(<<".", "p">>), AList(<< <<".", "t">>, <<>> >>)}
    ELSE {AStr(<<"s">>), AList(<< <<"s", "x">>, <<"d">> >>)}

\* Ill-typed values: not a Sequence, or a Sequence with an element that is no str
BadValues == {Other, [kind |-> "list", items |-> <<Str(<<"s">>), Int5>>]}

\* Assignments of values to at most n criteria, the others absent
Declared(n, Values(_)) ==
    UNION { {g \in [S -> UNION {Values(p) : p \in S}] : \A p \in S : g[p] \in Values(p)} :
            S \in {T \in SUBSET Criteria : Cardinality(T) <= n} }

IncludeFilters == {NoFilter, Fn("s", "True", "False"), Fn("e", "raise", "True")}
ExcludeFilters == {NoFilter, Fn("a", "True", "False"), Fn("h", "raise", "False")}

\* One root, or the same root twice, up to MaxDeclared criteria, custom predicates
Init ==
    \E d \in CwdChoices, dirs \in {AStr(pW), AList(<<pWS, pWS>>)},
       crit \in Declared(MaxDeclared, GoodValues),
       inf \in IncludeFilters, exf \in ExcludeFilters :
        Idle(MkArgs(dirs, crit, inf, exf), d)

Spec == Init /\ [][Next]_vars

RootNames == {pW, pWS, pS, pN, pWAP}

DirectoryValues ==
    {None, ATuple(<<>>), ATuple(<<pW>>)}
    \cup {AStr(r) : r \in RootNames}
    \cup {AList(s) : s \in SeqsUpTo(RootNames, MaxRoots)}

\* Up to MaxRoots roots, absolute or relative, existing or not
InitRoots ==
    \E d \in CwdChoices, dirs \in DirectoryValues,
       sub \in {None, AStr(<<"s">>), AStr(<<"w">>)},
       inf \in {NoFilter, Fn("w", "True", "False")},
       exf \in {NoFilter, Fn("c", "True", "False")} :
        Idle(MkArgs(dirs, [p \in {"exclude_subdirectory"} |-> sub], inf, exf), d)

SpecRoots == InitRoots /\ [][Next]_vars

BadOrGood(p) == BadValues \cup {AStr(<<"s">>)}

\* Up to MaxIllTyped criteria of any type, roots of any type, predicates of any type
InitTypes ==
    \E d \in CwdChoices,
       dirs \in {None, AStr(pN), AList(<<pW>>), Other,
                 [kind |-> "list", items |-> <<Str(pW), Int5>>],
                 [kind |-> "tuple", items |-> <<Int5>>]},
       crit \in Declared(MaxIllTyped, BadOrGood),
       inf \in {NoFilter, NotCallable}, exf \in {NoFilter, NotCallable} :
        Idle(MkArgs(dirs, crit, inf, exf), d)

SpecTypes == InitTypes /\ [][Next]_vars

-----------------------------------------------------------------------------
(* extract_file_components called on its own *)

Alphabet == {Sep, Dot, "a", "b"}

\* Lines 42-46
ExtractFileComponents ==
    /\ \E isstr \in BOOLEAN, a \in SeqsUpTo(Alphabet, MaxLen) :
          efc' = IF isstr
                 THEN [called |-> TRUE, isstr |-> TRUE, arg |-> a, exc |-> "",
                       out |-> extract_file_components(a)]
                 ELSE [called |-> TRUE, isstr |-> FALSE, arg |-> <<>>, exc |-> "TypeError",
                       out |-> <<>>]
    /\ UNCHANGED search_vars

InitEFC == Idle(MkArgs(None, <<>>, NoFilter, NoFilter), pW)

NextEFC == ExtractFileComponents

SpecEFC == InitEFC /\ [][NextEFC]_vars

-----------------------------------------------------------------------------
(* What the caller passed to the running (or last) call, read as the         *)
(* documentation reads it                                                    *)

Finished == pc = "idle" /\ outcome.st \in {"returned", "raised"}

\* None, a string, or a sequence whose elements are all strings
WellTyped(v) ==
    \/ v.kind \in {"none", "str"}
    \/ v.kind \in {"list", "tuple"} /\ \A i \in 1..Len(v.items) : v.items[i].t = "str"

\* The strings of a group: none when absent
Group(p) == [i \in 1..Len(given[p].items) |-> given[p].items[i].v]

NoRootGiven == given["include_directory"].kind \in {"none", "list", "tuple"}
               /\ given["include_directory"].items = <<>>

\* The declared roots, the working directory standing for none
GivenRoots == IF NoRootGiven THEN <<cwd0>> ELSE Group("include_directory")

BaseName(path) == extract_file_components(path)[2]
Extension(path) == extract_file_components(path)[3]

InclusionPredicate(path) ==
    /\ Group("include_start") = <<>>
         \/ \E i \in 1..Len(Group("include_start")) : startswith(BaseName(path), Group("include_start")[i])
    /\ Group("include_content") = <<>>
         \/ \E i \in 1..Len(Group("include_content")) : contains(BaseName(path), Group("include_content")[i])
    /\ Group("include_end") = <<>>
         \/ \E i \in 1..Len(Group("include_end")) : endswith(BaseName(path), Group("include_end")[i])
    /\ Group("include_extension") = <<>>
         \/ \E i \in 1..Len(Group("include_extension")) : Extension(path) = Group("include_extension")[i]
    /\ Group("include_pattern") = <<>>
         \/ \E i \in 1..Len(Group("include_pattern")) : re_match(Group("include_pattern")[i], BaseName(path))
    /\ given["include_filter"].kind = "none"
         \/ CallFilter(given["include_filter"], path) = "True"

ExclusionPredicate(path) ==
    \/ \E i \in 1..Len(Group("exclude_start")) : startswith(BaseName(path), Group("exclude_start")[i])
    \/ \E i \in 1..Len(Group("exclude_content")) : contains(BaseName(path), Group("exclude_content")[i])
    \/ \E i \in 1..Len(Group("exclude_end")) : endswith(BaseName(path), Group("exclude_end")[i])
    \/ \E i \in 1..Len(Group("exclude_extension")) : Extension(path) = Group("exclude_extension")[i]
    \/ \E i \in 1..Len(Group("exclude_pattern")) : re_match(Group("exclude_pattern")[i], BaseName(path))
    \/ given["exclude_filter"].kind # "none" /\ CallFilter(given["exclude_filter"], path) = "True"

\* Some exclude_subdirectory fragment is a substring of the path
HasFragment(path) ==
    \E i \in 1..Len(Group("exclude_subdirectory")) : contains(path, Group("exclude_subdirectory")[i])

\* The files reachable under root i: the directory as traversed, and the path
Candidates(i) ==
    LET entries == os_walk(GivenRoots[i], cwd0)
    IN  UNION { { [root |-> entries[e].root,
                   path |-> os_path_join(entries[e].root, entries[e].files[n])] :
                  n \in 1..Len(entries[e].files) } :
                e \in 1..Len(entries) }

\* Number of times the path was kept during the walk of root i
Kept(i, path) ==
    Cardinality({j \in 1..Len(list_filepaths) :
                    list_filepaths[j] = path /\ origin[j].k = i})

-----------------------------------------------------------------------------
(* C1 *)

\* C1 as stated: after a normal return, a file reachable under a declared root
\* is in the result iff it satisfies the inclusion predicate, does not satisfy
\* the exclusion predicate, and its path contains no exclude_subdirectory
\* fragment.
C1_Original ==
    outcome.st = "returned" =>
        \A i \in 1..Len(GivenRoots) : \A c \in Candidates(i) :
            (Kept(i, c.path) >= 1) <=>
                /\ InclusionPredicate(c.path)
                /\ ~ExclusionPredicate(c.path)
                /\ ~HasFragment(c.path)

\* C1 amended: after a normal return, a file reachable under a declared root is
\* in that root's part of the result iff it satisfies the inclusion predicate,
\* does not satisfy the exclusion predicate, and the traversed path of the
\* directory that holds it contains no exclude_subdirectory fragment (a
\* fragment that occurs only in the file's own name does not remove it).
C1_KeptIffPredicates ==
    outcome.st = "returned" =>
        \A i \in 1..Len(GivenRoots) : \A c \in Candidates(i) :
            (Kept(i, c.path) >= 1) <=>
                /\ InclusionPredicate(c.path)
                /\ ~ExclusionPredicate(c.path)
                /\ ~HasFragment(c.root)

\* A returned file whose name, but not whose directory, contains a fragment,
\* next to a file that a criterion removed
C1_Witness ==
    /\ outcome.st = "returned"
    /\ \E c \in Candidates(1) :
          HasFragment(c.path) /\ ~HasFragment(c.root) /\ Kept(1, c.path) = 1
    /\ \E c \in Candidates(1) :
          ~HasFragment(c.root) /\ Kept(1, c.path) = 0

-----------------------------------------------------------------------------
(* C2 *)

FilterEvents == {j \in 1..Len(log) : log[j].op \in {"include_filter", "exclude_filter"}}

\* The directories of root i's walk at or below a directory whose traversed
\* path contains a fragment
PrunedDirs(i) ==
    LET entries == os_walk(GivenRoots[i], cwd0)
    IN  { entries[e].root : e \in {x \in 1..Len(entries) :
              \E a \in 1..Len(entries) :
                  /\ HasFragment(entries[a].root)
                  /\ \/ entries[x].root = entries[a].root
                     \/ startswith(entries[x].root,
                                   IF endswith(entries[a].root, <<Sep>>)
                                   THEN entries[a].root
                                   ELSE entries[a].root \o <<Sep>>) } }

\* C2: at every moment of a walk, no file that lies in a directory whose
\* traversed path contains an exclude_subdirectory fragment, or anywhere below
\* it, has been kept, and neither custom predicate has been invoked on it.
C2_PrunedNeverConsidered ==
    outcome.st \in {"running", "returned", "raised"} =>
        \A i \in 1..Len(GivenRoots) :
            /\ \A j \in 1..Len(origin) : origin[j].k = i => origin[j].root \notin PrunedDirs(i)
            /\ \A j \in FilterEvents : log[j].k = i => log[j].root \notin PrunedDirs(i)

\* Fragment "s": the first root, /w/s, is itself pruned; under the second, /w,
\* the directories s, s/d and sx are pruned and the files of /w are filtered
C2_Witness ==
    /\ outcome.st = "returned"
    /\ Group("exclude_subdirectory") = <<nS>>
    /\ GivenRoots = <<pWS, pW>>
    /\ PrunedDirs(1) = {pWS, pWS \o <<Sep>> \o nD}
    /\ pW \o <<Sep>> \o nSX \in PrunedDirs(2)
    /\ \E j \in FilterEvents : log[j].op = "include_filter"
    /\ \E j \in FilterEvents : log[j].op = "exclude_filter"
    /\ list_filepaths # <<>>

-----------------------------------------------------------------------------
(* C3 *)

\* C3: every path of a returned list is absolute.
C3_Original ==
    outcome.st = "returned" =>
        \A j \in 1..Len(list_filepaths) : os_path_isabs(list_filepaths[j])

-----------------------------------------------------------------------------
(* C7 and C4: the result as a function of the declared roots *)

KeepFile(root, path) ==
    /\ InclusionPredicate(path)
    /\ ~ExclusionPredicate(path)
    /\ ~HasFragment(root)

\* The kept files of one walk entry, from its n-th file on
RECURSIVE KeptOfEntry(_, _)
KeptOfEntry(entry, n) ==
    IF n > Len(entry.files) THEN <<>>
    ELSE LET path == os_path_join(entry.root, entry.files[n])
         IN  (IF KeepFile(entry.root, path) THEN <<path>> ELSE <<>>)
             \o KeptOfEntry(entry, n + 1)

\* The result of the search of the single root r, from its e-th entry on
RECURSIVE SingleRootResult(_, _)
SingleRootResult(r, e) ==
    IF e > Len(os_walk(r, cwd0)) THEN <<>>
    ELSE KeptOfEntry(os_walk(r, cwd0)[e], 1) \o SingleRootResult(r, e + 1)

\* The single-root results of roots i, i+1, ... one after the other
RECURSIVE Concatenation(_)
Concatenation(i) ==
    IF i > Len(GivenRoots) THEN <<>>
    ELSE SingleRootResult(GivenRoots[i], 1) \o Concatenation(i + 1)

\* The file a path names: the directory it resolves to, and the name
FileOf(path) == <<stat(os_path_split(path)[1], cwd0), os_path_split(path)[2]>>

Occurrences(file) ==
    Cardinality({j \in 1..Len(list_filepaths) : FileOf(list_filepaths[j]) = file})

RootsHolding(file) ==
    {i \in 1..Len(GivenRoots) : \E c \in Candidates(i) : FileOf(c.path) = file}

RootsKeeping(file) ==
    {i \in 1..Len(GivenRoots) :
        \E c \in Candidates(i) : FileOf(c.path) = file /\ KeepFile(c.root, c.path)}

ReturnedFiles == {FileOf(list_filepaths[j]) : j \in 1..Len(list_filepaths)}

ConcatenationOfRoots ==
    /\ list_filepaths = Concatenation(1)
    /\ \A j \in 1..(Len(origin) - 1) : origin[j].k <= origin[j + 1].k
    /\ \A i \in 1..Len(GivenRoots) : \A c \in Candidates(i) : Kept(i, c.path) <= 1

\* C7 as stated: the result is the concatenation, in declaration order, of the
\* single-root results, no root's part repeats a file, and a returned file
\* lying under k declared roots appears exactly k times.
C7_Original ==
    outcome.st = "returned" =>
        /\ ConcatenationOfRoots
        /\ \A file \in ReturnedFiles : Occurrences(file) = Cardinality(RootsHolding(file))

\* C7 amended: the result is the concatenation, in declaration order, of the
\* single-root results, no root's part repeats a file, and nothing is
\* deduplicated across roots: a file appears once for each declared root whose
\* single-root search keeps it (the path a root yields for the file, hence the
\* verdict of the fragments and of the custom predicates, depends on how that
\* root is spelled).
C7_ConcatenationOfRoots ==
    outcome.st = "returned" =>
        /\ ConcatenationOfRoots
        /\ \A file \in ReturnedFiles : Occurrences(file) = Cardinality(RootsKeeping(file))

\* Two overlapping roots: a file of the inner one is returned twice, a file
\* of the outer one only once, the outer root's part first
C7_Witness ==
    /\ outcome.st = "returned"
    /\ GivenRoots = <<pW, pWS>>
    /\ \E file \in ReturnedFiles : Occurrences(file) = 2
    /\ \E file \in ReturnedFiles : Occurrences(file) = 1
    /\ origin[1].k = 1 /\ origin[Len(origin)].k = 2

\* C4: with include_directory absent, an empty list or an empty tuple, the call
\* completes without error and returns what the search of the current working
\* directory returns.
C4_Original ==
    (Finished /\ NoRootGiven) =>
        /\ outcome.st = "returned"
        /\ list_filepaths = SingleRootResult(cwd0, 1)

-----------------------------------------------------------------------------
(* C5 *)

\* The declared roots that are no directory, by position
NotDirectories ==
    {i \in 1..Len(GivenRoots) : stat(GivenRoots[i], cwd0) \in {"FILE", "NONE"}}

FirstNotDirectory == CHOOSE i \in NotDirectories : \A j \in NotDirectories : i <= j

\* C5: in a call whose parameters pass the type check, if some declared root
\* does not exist or is not a directory, then nothing is ever walked, no custom
\* predicate is invoked, nothing is kept or returned, and the call ends with
\* the Not-Found error naming the first such root in declaration order.
C5_NotFoundBeforeTraversal ==
    (/\ outcome.st \in {"running", "returned", "raised"}
     /\ \A p \in StrParams : WellTyped(given[p])
     /\ NotDirectories # {}) =>
        /\ \A j \in 1..Len(log) : log[j].op \in {"getcwd", "isdir"}
        /\ list_filepaths = <<>>
        /\ outcome.st # "returned"
        /\ Finished =>
              outcome = Raised("FileNotFoundError", "CheckDirectories",
                               GivenRoots[FirstNotDirectory])

\* A valid root declared first, then a file, then a missing directory: the
\* error names the file, after two existence checks and no walk
C5_Witness ==
    /\ Finished
    /\ Len(GivenRoots) >= 2
    /\ NotDirectories # {} /\ FirstNotDirectory = 2
    /\ stat(GivenRoots[2], cwd0) = "FILE"
    /\ outcome.exc = "FileNotFoundError" /\ outcome.dir = GivenRoots[2]
    /\ Len(log) = 2

-----------------------------------------------------------------------------
(* C6 *)

IllTyped == \E p \in StrParams : ~WellTyped(given[p])

\* C6: a call with an ill-typed string parameter ends with the type error of
\* the parameter check, before any access to the filesystem and whatever the
\* roots are; and whatever include_filter and exclude_filter are, a call whose
\* twelve string parameters are well typed does not end with that error.
C6_TypeErrorFirst ==
    /\ (IllTyped /\ outcome.st \in {"running", "returned", "raised"}) =>
          /\ log = <<>>
          /\ pc \in {"ParameterCheck", "idle"}
          /\ pc = "idle" => outcome = Raised("TypeError", "ParameterCheck", <<>>)
    /\ ~IllTyped => outcome.at # "ParameterCheck"

\* An ill-typed criterion together with a root that does not exist, and
\* custom predicates that are not callable: the type error wins
C6_Witness ==
    /\ Finished
    /\ outcome = Raised("TypeError", "ParameterCheck", <<>>)
    /\ given["include_directory"] = AStr(pN)
    /\ WellTyped(given["include_directory"])
    /\ given["include_filter"].kind = "int"
    /\ log = <<>>

-----------------------------------------------------------------------------
(* C8 *)

LastSegment(p) == SubSeq(p, rfind(p, Sep) + 1, Len(p))

\* C8: for a string P, base_name + extension is the last segment of P; a
\* last segment that starts with a dot and has no other dot has an empty
\* extension; and when P has a directory component,
\* directory + separator + base_name + extension is equivalent to P.
C8_RoundTrip ==
    (efc.called /\ efc.isstr) =>
        LET P == efc.arg
            directory == efc.out[1]
            base_name == efc.out[2]
            extension == efc.out[3]
        IN  /\ base_name \o extension = LastSegment(P)
            /\ (/\ startswith(LastSegment(P), <<Dot>>)
                /\ rfind(LastSegment(P), Dot) = 1) => extension = <<>>
            /\ contains(P, <<Sep>>) =>
                  /\ directory # <<>>
                  /\ Equivalent(directory \o <<Sep>> \o base_name \o extension, P)

\* A path with a directory and a leading-dot last segment
C8_Witness ==
    /\ efc.called /\ efc.isstr
    /\ efc.arg = <<"a", Sep, Dot, "b">>
    /\ efc.out = << <<"a">>, <<Dot, "b">>, <<>> >>

-----------------------------------------------------------------------------
(* C9 *)

StringsPass(path) ==
    /\ Group("include_start") = <<>>
         \/ \E i \in 1..Len(Group("include_start")) : startswith(BaseName(path), Group("include_start")[i])
    /\ Group("include_content") = <<>>
         \/ \E i \in 1..Len(Group("include_content")) : contains(BaseName(path), Group("include_content")[i])
    /\ Group("include_end") = <<>>
         \/ \E i \in 1..Len(Group("include_end")) : endswith(BaseName(path), Group("include_end")[i])
    /\ Group("include_extension") = <<>>
         \/ \E i \in 1..Len(Group("include_extension")) : Extension(path) = Group("include_extension")[i]
    /\ Group("include_pattern") = <<>>
         \/ \E i \in 1..Len(Group("include_pattern")) : re_match(Group("include_pattern")[i], BaseName(path))

StringsExclude(path) ==
    \/ \E i \in 1..Len(Group("exclude_start")) : startswith(BaseName(path), Group("exclude_start")[i])
    \/ \E i \in 1..Len(Group("exclude_content")) : contains(BaseName(path), Group("exclude_content")[i])
    \/ \E i \in 1..Len(Group("exclude_end")) : endswith(BaseName(path), Group("exclude_end")[i])
    \/ \E i \in 1..Len(Group("exclude_extension")) : Extension(path) = Group("exclude_extension")[i]
    \/ \E i \in 1..Len(Group("exclude_pattern")) : re_match(Group("exclude_pattern")[i], BaseName(path))

Raising(j) == log[j].val \notin {"True", "False"}

\* C9: each custom predicate is invoked at most once per candidate file of a
\* root; include_filter only on a file that passed every declared string
\* include group; exclude_filter only on a file whose inclusion predicate was
\* true and that no declared string exclude group matched; and the first
\* invocation that raises is the last one: its error is the call's outcome.
C9_PredicateOrder ==
    /\ \A j \in FilterEvents : \A h \in FilterEvents :
          (log[j].op = log[h].op /\ log[j].k = log[h].k /\ log[j].path = log[h].path)
              => j = h
    /\ \A j \in FilterEvents : log[j].op = "include_filter" =>
          /\ StringsPass(log[j].path)
          /\ log[j].val = CallFilter(given["include_filter"], log[j].path)
    /\ \A j \in FilterEvents : log[j].op = "exclude_filter" =>
          /\ StringsPass(log[j].path)
          /\ ~StringsExclude(log[j].path)
          /\ \/ given["include_filter"].kind = "none"
             \/ /\ j - 1 \in FilterEvents
                /\ log[j - 1] = [log[j] EXCEPT !.op = "include_filter", !.val = "True"]
    /\ \A j \in FilterEvents : Raising(j) =>
          /\ j = Len(log)
          /\ outcome = Raised(IF log[j].val = "raise" THEN "PredicateError" ELSE "TypeError",
                              log[j].op, <<>>)
    /\ outcome.at \in {"include_filter", "exclude_filter"} =>
          Len(log) \in FilterEvents /\ Raising(Len(log))

\* exclude_filter raises on a file after both predicates answered on earlier
\* files, and while a declared string group kept include_filter from others
C9_Witness ==
    /\ Finished
    /\ outcome = Raised("PredicateError", "exclude_filter", <<>>)
    /\ given["include_filter"].kind = "fn"
    /\ \E j \in FilterEvents : log[j].op = "exclude_filter" /\ ~Raising(j)
    /\ \E c \in Candidates(1) :
          /\ ~StringsPass(c.path)
          /\ \A j \in FilterEvents : log[j].path # c.path

-----------------------------------------------------------------------------
(* C10 *)

\* C10: a call leaves every argument object as it received it, and an empty
\* include_directory list of the caller means the working directory of each
\* call that receives it.
C10_Original ==
    Finished =>
        /\ args = given
        /\ (args0["include_directory"] = AList(<<>>) /\ outcome.st = "returned")
              => Roots = <<cwd0>>

====
